---- MODULE Spec2Model ----
(***************************************************************************)
(* OnePass Office Toolbox: the four command-line tools                     *)
(*   fs rename-basic, fs organize-ext,                                     *)
(*   list excel-to-filenames, list dedup-filename-column                   *)
(* as state machines over a small filesystem.                              *)
(*                                                                         *)
(* A string is a sequence of one-character strings, a path is a sequence   *)
(* of names (strings), relative to the working directory <<>>.             *)
(***************************************************************************)
EXTENDS Integers, Sequences, FiniteSets, TLC

VARIABLES
    tool,       \* which tool the command line names
    args,       \* the parsed arguments of the tool
    fs,         \* the filesystem: path -> [kind, id]
    fs0,        \* the filesystem when the run started
    pc,         \* "start", "loop", "done", "crashed"
    files,      \* the part of the snapshot list `files` not yet processed
    log,        \* one record per processed file: the printed line and the calls issued
    rc,         \* the value the tool's main returned (NoRc while running)
    exit_code,  \* the exit status of the process started through cli.main
    table,      \* the table the input file of a list tool holds
    outputs,    \* list tools: output path name -> file content (or Absent)
    outputs0,   \* the outputs when the run started
    stats,      \* list tools: the values process_filenames / analyze_duplicates computed
    probe       \* resolve_conflict called on its own: [target, result]

vars == <<tool, args, fs, fs0, pc, files, log, rc, exit_code, table, outputs,
          outputs0, stats, probe>>

-----------------------------------------------------------------------------
(* Bounds of the model *)

\* at most this many regular files in the starting directory tree
MaxFiles == 3

\* at most this many rows in the input table of a list tool
MaxRows == 3

\* at most this many existing names in the directory resolve_conflict is probed on
MaxTaken == 3

-----------------------------------------------------------------------------
(* Strings *)

UpperLetters == <<"A","B","C","D","E","F","G","H","I","J","K","L","M",
                  "N","O","P","Q","R","S","T","U","V","W","X","Y","Z">>
LowerLetters == <<"a","b","c","d","e","f","g","h","i","j","k","l","m",
                  "n","o","p","q","r","s","t","u","v","w","x","y","z">>
DigitChars == <<"0","1","2","3","4","5","6","7","8","9">>

LowerChar(c) ==
    IF \E i \in 1..26 : UpperLetters[i] = c
    THEN LowerLetters[CHOOSE i \in 1..26 : UpperLetters[i] = c]
    ELSE c

UpperChar(c) ==
    IF \E i \in 1..26 : LowerLetters[i] = c
    THEN UpperLetters[CHOOSE i \in 1..26 : LowerLetters[i] = c]
    ELSE c

\* str.lower()
lower(s) == [i \in 1..Len(s) |-> LowerChar(s[i])]

\* str.upper()
upper(s) == [i \in 1..Len(s) |-> UpperChar(s[i])]

\* str.lstrip("."): drops every leading dot
RECURSIVE lstrip_dot(_)
lstrip_dot(s) ==
    IF s # <<>> /\ Head(s) = "." THEN lstrip_dot(Tail(s)) ELSE s

\* str(counter) for a counter >= 0, in decimal
RECURSIVE IntToStr(_)
IntToStr(n) ==
    IF n < 10 THEN <<DigitChars[n + 1]>>
    ELSE IntToStr(n \div 10) \o <<DigitChars[(n % 10) + 1]>>

\* name.rfind("."), 1-based; 0 when the name holds no dot
rfind_dot(name) ==
    IF \E i \in 1..Len(name) : name[i] = "."
    THEN CHOOSE i \in 1..Len(name) :
            /\ name[i] = "."
            /\ \A j \in (i + 1)..Len(name) : name[j] # "."
    ELSE 0

-----------------------------------------------------------------------------
(* Paths (pathlib.PurePath) *)

\* Path.name
Name(p) == p[Len(p)]

\* Path.parent
Parent(p) == IF p = <<>> THEN <<>> ELSE SubSeq(p, 1, Len(p) - 1)

\* Path.suffix: from the last dot on, unless that dot starts or ends the name
Suffix(p) ==
    LET name == Name(p)
        i == rfind_dot(name)
    IN  IF 1 < i /\ i < Len(name) THEN SubSeq(name, i, Len(name)) ELSE <<>>

\* Path.stem: the name without its suffix
Stem(p) ==
    LET name == Name(p)
        i == rfind_dot(name)
    IN  IF 1 < i /\ i < Len(name) THEN SubSeq(name, 1, i - 1) ELSE name

\* Path.with_name(name)
WithName(p, name) == Append(Parent(p), name)

\* a / b for a single name b
Join(p, name) == Append(p, name)

IsProperPrefix(a, b) == Len(a) < Len(b) /\ SubSeq(b, 1, Len(a)) = a

Ancestors(p) == { SubSeq(p, 1, k) : k \in 1..(Len(p) - 1) }

-----------------------------------------------------------------------------
(* The filesystem.  fs maps each existing path to [kind, id]; the id of a  *)
(* regular file is the path it had when the run started, so that a file    *)
(* can be followed through its moves.  The working directory <<>> always   *)
(* exists.                                                                 *)

DirEntry == [kind |-> "dir", id |-> <<>>]
FileEntry(p) == [kind |-> "file", id |-> p]

\* Path.exists()
Exists(f, p) == p = <<>> \/ p \in DOMAIN f

\* Path.is_dir()
IsDir(f, p) == p = <<>> \/ (p \in DOMAIN f /\ f[p].kind = "dir")

\* Path.is_file()
IsFile(f, p) == p \in DOMAIN f /\ f[p].kind = "file"

Ok(f) == [ok |-> TRUE, fs |-> f]
Raise(f) == [ok |-> FALSE, fs |-> f]

\* Path.mkdir(parents=True, exist_ok=True): an existing directory is left as
\* is, missing ancestors are created first; FileExistsError or
\* NotADirectoryError when the path or one of its ancestors is a regular file.
RECURSIVE mkdir(_, _)
mkdir(f, p) ==
    IF IsDir(f, p) THEN Ok(f)
    ELSE IF Exists(f, p) THEN Raise(f)
    ELSE LET r == mkdir(f, Parent(p))
         IN  IF r.ok THEN Ok(r.fs @@ (p :> DirEntry)) ELSE Raise(f)

\* Path.rename(target) of a regular file (os.rename on POSIX)
rename(f, src, dst) ==
    IF ~Exists(f, src) THEN Raise(f)
    ELSE IF dst = src THEN Ok(f)
    ELSE IF ~IsDir(f, Parent(dst)) THEN Raise(f)
    ELSE IF IsDir(f, dst) THEN Raise(f)
    ELSE Ok([q \in (DOMAIN f \ {src}) \cup {dst} |->
                IF q = dst THEN f[src] ELSE f[q]])

\* iter_files(base_dir, recursive), as the set of the paths it yields
iter_files(f, base_dir, recursive) ==
    { p \in DOMAIN f :
        /\ f[p].kind = "file"
        /\ IsProperPrefix(base_dir, p)
        /\ (recursive \/ Len(p) = Len(base_dir) + 1) }

-----------------------------------------------------------------------------
(* Planning *)

\* rename_files_basic.build_new_name; an option not given (None) and an
\* empty string are both <<>>: the code tests `if prefix:`.
\* variant: the suffix option appended after the extension
build_new_name_suffix_last(path, prefix, suffix, ext_mode) ==
    LET stem1 == IF prefix # <<>> THEN prefix \o Stem(path) ELSE Stem(path)
        extension == IF ext_mode = "lower" THEN lower(Suffix(path))
                     ELSE IF ext_mode = "upper" THEN upper(Suffix(path))
                     ELSE Suffix(path)
    IN  IF suffix # <<>> THEN stem1 \o extension \o suffix ELSE stem1 \o extension

\* variant: the extension lower-cased whatever the flags
build_new_name_always_lower(path, prefix, suffix, ext_mode) ==
    LET stem1 == IF prefix # <<>> THEN prefix \o Stem(path) ELSE Stem(path)
        stem2 == IF suffix # <<>> THEN stem1 \o suffix ELSE stem1
    IN  stem2 \o lower(Suffix(path))

build_new_name(path, prefix, suffix, ext_mode) ==
    LET stem1 == IF prefix # <<>> THEN prefix \o Stem(path) ELSE Stem(path)
        stem2 == IF suffix # <<>> THEN stem1 \o suffix ELSE stem1
        extension == IF ext_mode = "lower" THEN lower(Suffix(path))
                     ELSE IF ext_mode = "upper" THEN upper(Suffix(path))
                     ELSE Suffix(path)
    IN  stem2 \o extension

no_ext == <<"n","o","_","e","x","t">>

\* organize_by_extension.build_target_path
\* variant: the folder named after the extension as spelled
build_target_path_keep_case(file_path, target_root) ==
    LET ext == lstrip_dot(Suffix(file_path))
        folder_name == IF ext # <<>> THEN ext ELSE no_ext
    IN  Join(Join(target_root, folder_name), Name(file_path))

build_target_path(file_path, target_root) ==
    LET ext == lstrip_dot(lower(Suffix(file_path)))
        folder_name == IF ext # <<>> THEN ext ELSE no_ext
    IN  Join(Join(target_root, folder_name), Name(file_path))

\* the candidate resolve_conflict tries at a given counter
Candidate(target, counter) ==
    Join(Parent(target),
         Stem(target) \o <<"_">> \o IntToStr(counter) \o Suffix(target))

\* the `while True` loop of resolve_conflict, from a given counter on
RECURSIVE resolve_loop(_, _, _)
resolve_loop(f, target, counter) ==
    IF ~Exists(f, Candidate(target, counter)) THEN Candidate(target, counter)
    ELSE resolve_loop(f, target, counter + 1)

\* resolve_conflict (the same code in both fs tools)
\* variant: _1 taken without looking whether it exists
resolve_conflict_first(f, target) ==
    IF ~Exists(f, target) THEN target ELSE Candidate(target, 1)

resolve_conflict(f, target) ==
    IF ~Exists(f, target) THEN target ELSE resolve_loop(f, target, 1)

-----------------------------------------------------------------------------
(* Values shared by the tools *)

NoRc == 0 - 1
NoExit == 0 - 1
NoStats == [tool |-> "none"]
NoProbe == [target |-> <<>>, result |-> <<>>, called |-> FALSE]
NoTable == [columns |-> <<>>, data |-> <<>>]
Absent == <<"absent">>

\* cli.main and the _dispatch_* handlers: the handler calls the tool's main
\* and drops the value it returns, main itself returns None, so the process
\* ends with status 0 unless an exception escapes (status 1).
cli_main(tool_rc, raised) == IF raised THEN 1 ELSE 0

-----------------------------------------------------------------------------
(* The starting filesystems of the fs tools *)

d == <<"d">>
jpg == <<"j","p","g">>
a_JPG == <<"a",".","J","P","G">>
a_jpg == <<"a",".","j","p","g">>
b_jpg == <<"b",".","j","p","g">>
n_a_JPG == <<"n","_","a",".","J","P","G">>
dot_h == <<".","h">>

CandidateFiles ==
    { <<d, a_JPG>>, <<d, b_jpg>>, <<d, a_jpg>>, <<d, n_a_JPG>>,
      <<d, jpg>>, <<d, no_ext>>, <<d, dot_h>>,
      <<d, jpg, a_JPG>>, <<d, <<"s">>, a_JPG>> }

\* no chosen file lies below another chosen file
Consistent(S) == \A p \in S : \A q \in S : ~IsProperPrefix(p, q)

MakeFs(S) ==
    LET dirs == {<<d>>} \cup UNION { Ancestors(p) : p \in S }
    IN  [p \in S \cup dirs |-> IF p \in S THEN FileEntry(p) ELSE DirEntry]

Filesystems(candidates, n) ==
    { MakeFs(S) : S \in { T \in SUBSET candidates :
                            Cardinality(T) <= n /\ Consistent(T) } }

StartFilesystems == Filesystems(CandidateFiles, MaxFiles)

Prefixes == { <<>>, <<"n","_">> }
Suffixes == { <<>>, <<"_","1">> }
Dirs == { <<d>>, <<d, a_JPG>> }
TargetRoots == { <<>>, << <<"t">> >> }

RenameArgs ==
    [dir : Dirs, recursive : BOOLEAN, prefix : Prefixes, suffix : Suffixes,
     lower_ext : BOOLEAN, upper_ext : BOOLEAN, dry_run : BOOLEAN, apply : BOOLEAN]

OrganizeArgs ==
    [dir : Dirs, recursive : BOOLEAN, target_root : TargetRoots,
     dry_run : BOOLEAN, apply : BOOLEAN]

InitFsTool ==
    /\ tool \in {"rename", "organize"}
    /\ args \in IF tool = "rename" THEN RenameArgs ELSE OrganizeArgs
    /\ fs \in StartFilesystems
    /\ fs0 = fs
    /\ pc = "start"
    /\ files = {}
    /\ log = <<>>
    /\ rc = NoRc
    /\ exit_code = NoExit
    /\ table = NoTable
    /\ outputs = <<>>
    /\ outputs0 = <<>>
    /\ stats = NoStats
    /\ probe = NoProbe

-----------------------------------------------------------------------------
(* fs rename-basic and fs organize-ext *)

\* dry_run = True if parsed.dry_run or not parsed.apply else False
\* variant: --apply overriding --dry-run
dry_run_apply_wins(a) == ~a.apply

dry_run(a) == a.dry_run \/ ~a.apply

status_label(a) == IF dry_run(a) THEN "DRY-RUN" ELSE "APPLY"

Call(op, a, b, parent_is_dir, target_existed) ==
    [op |-> op, a |-> a, b |-> b, parent_is_dir |-> parent_is_dir,
     target_existed |-> target_existed]

\* destination.parent.mkdir(parents=True, exist_ok=True); file_path.rename(destination)
\* gives [fs, calls, raised]
MkdirThenRename(f, file_path, destination) ==
    LET m == mkdir(f, Parent(destination))
        r == rename(m.fs, file_path, destination)
        c1 == Call("mkdir", Parent(destination), <<>>, m.ok,
                   Exists(f, Parent(destination)))
        c2 == Call("rename", file_path, destination, IsDir(m.fs, Parent(destination)),
                   Exists(m.fs, destination))
    IN  IF ~m.ok THEN [fs |-> f, calls |-> <<c1>>, raised |-> TRUE]
        ELSE [fs |-> r.fs, calls |-> <<c1, c2>>, raised |-> ~r.ok]

NoCalls(f) == [fs |-> f, calls |-> <<>>, raised |-> FALSE]

\* variant: the computed path is used as it is, taken or not
RenameBody_no_conflict_test(f, a, file_path) ==
    LET ext_mode == IF a.lower_ext THEN "lower"
                    ELSE IF a.upper_ext THEN "upper" ELSE "none"
        new_name == build_new_name(file_path, a.prefix, a.suffix, ext_mode)
        target_path == WithName(file_path, new_name)
        done == IF ~dry_run(a) /\ target_path # file_path
                THEN MkdirThenRename(f, file_path, target_path)
                ELSE NoCalls(f)
    IN  [line |-> [label |-> status_label(a), src |-> file_path,
                   planned |-> target_path, dst |-> target_path,
                   calls |-> done.calls, raised |-> done.raised],
         fs |-> done.fs]

\* variant: the conflict test and the _N search look at the filesystem as it
\* was when the run started, the move is made on the live one
RenameBody_planned_at_start(f, a, file_path) ==
    LET ext_mode == IF a.lower_ext THEN "lower"
                    ELSE IF a.upper_ext THEN "upper" ELSE "none"
        new_name == build_new_name(file_path, a.prefix, a.suffix, ext_mode)
        planned == WithName(file_path, new_name)
        target_path == IF Exists(fs0, planned) /\ planned # file_path
                       THEN resolve_conflict(fs0, planned) ELSE planned
        done == IF ~dry_run(a) /\ target_path # file_path
                THEN MkdirThenRename(f, file_path, target_path)
                ELSE NoCalls(f)
    IN  [line |-> [label |-> status_label(a), src |-> file_path,
                   planned |-> planned, dst |-> target_path,
                   calls |-> done.calls, raised |-> done.raised],
         fs |-> done.fs]

\* one pass of the `for file_path in files` loop of rename_files_basic.main
RenameBody(f, a, file_path) ==
    LET ext_mode == IF a.lower_ext THEN "lower"
                    ELSE IF a.upper_ext THEN "upper" ELSE "none"
        new_name == build_new_name(file_path, a.prefix, a.suffix, ext_mode)
        planned == WithName(file_path, new_name)
        target_path == IF Exists(f, planned) /\ planned # file_path
                       THEN resolve_conflict(f, planned) ELSE planned
        done == IF ~dry_run(a) /\ target_path # file_path
                THEN MkdirThenRename(f, file_path, target_path)
                ELSE NoCalls(f)
    IN  [line |-> [label |-> status_label(a), src |-> file_path,
                   planned |-> planned, dst |-> target_path,
                   calls |-> done.calls, raised |-> done.raised],
         fs |-> done.fs]

\* variant: the destinations already printed in the run count as taken
OrganizeBody_avoids_printed(f, a, file_path) ==
    LET target_root == IF a.target_root # <<>> THEN a.target_root ELSE a.dir
        planned == build_target_path(file_path, target_root)
        printed == { log[i].dst : i \in 1..Len(log) }
        taken == [q \in DOMAIN f \cup printed |->
                    IF q \in DOMAIN f THEN f[q] ELSE FileEntry(q)]
        destination == IF Exists(taken, planned) /\ planned # file_path
                       THEN resolve_conflict(taken, planned) ELSE planned
        done == IF ~dry_run(a)
                THEN MkdirThenRename(f, file_path, destination)
                ELSE NoCalls(f)
    IN  [line |-> [label |-> status_label(a), src |-> file_path,
                   planned |-> planned, dst |-> destination,
                   calls |-> done.calls, raised |-> done.raised],
         fs |-> done.fs]

\* one pass of the `for file_path in files` loop of organize_by_extension.main
OrganizeBody(f, a, file_path) ==
    LET target_root == IF a.target_root # <<>> THEN a.target_root ELSE a.dir
        planned == build_target_path(file_path, target_root)
        destination == IF Exists(f, planned) /\ planned # file_path
                       THEN resolve_conflict(f, planned) ELSE planned
        done == IF ~dry_run(a)
                THEN MkdirThenRename(f, file_path, destination)
                ELSE NoCalls(f)
    IN  [line |-> [label |-> status_label(a), src |-> file_path,
                   planned |-> planned, dst |-> destination,
                   calls |-> done.calls, raised |-> done.raised],
         fs |-> done.fs]

Return(code) ==
    /\ pc' = "done"
    /\ rc' = code
    /\ exit_code' = cli_main(code, FALSE)

Crash ==
    /\ pc' = "crashed"
    /\ rc' = NoRc
    /\ exit_code' = cli_main(NoRc, TRUE)

ListVarsUnchanged == UNCHANGED <<table, outputs, outputs0, stats, probe>>

\* rename_files_basic.main up to the loop
RenameStart ==
    /\ tool = "rename" /\ pc = "start"
    /\ IF args.lower_ext /\ args.upper_ext
       THEN Return(1) /\ UNCHANGED files
       ELSE IF ~Exists(fs, args.dir) \/ ~IsDir(fs, args.dir)
       THEN Return(1) /\ UNCHANGED files
       ELSE LET found == iter_files(fs, args.dir, args.recursive)
            IN  IF found = {}
                THEN Return(0) /\ UNCHANGED files
                ELSE /\ files' = found
                     /\ pc' = "loop"
                     /\ UNCHANGED <<rc, exit_code>>
    /\ UNCHANGED <<tool, args, fs, fs0, log>>
    /\ ListVarsUnchanged

\* organize_by_extension.main up to the loop
OrganizeStart ==
    /\ tool = "organize" /\ pc = "start"
    /\ IF ~Exists(fs, args.dir) \/ ~IsDir(fs, args.dir)
       THEN Return(1) /\ UNCHANGED files
       ELSE LET found == iter_files(fs, args.dir, args.recursive)
            IN  IF found = {}
                THEN Return(0) /\ UNCHANGED files
                ELSE /\ files' = found
                     /\ pc' = "loop"
                     /\ UNCHANGED <<rc, exit_code>>
    /\ UNCHANGED <<tool, args, fs, fs0, log>>
    /\ ListVarsUnchanged

\* the loop takes the next file of the list; the order of the list is the
\* order the operating system enumerates the directory in, which is any order
LoopStep(body) ==
    /\ fs' = body.fs
    /\ log' = Append(log, body.line)
    /\ IF body.line.raised
       THEN Crash /\ UNCHANGED files
       ELSE /\ files' = files \ {body.line.src}
            /\ IF files' = {}
               THEN Return(0)
               ELSE UNCHANGED <<pc, rc, exit_code>>
    /\ UNCHANGED <<tool, args, fs0>>
    /\ ListVarsUnchanged

RenameStep ==
    /\ tool = "rename" /\ pc = "loop"
    /\ \E file_path \in files : LoopStep(RenameBody(fs, args, file_path))

OrganizeStep ==
    /\ tool = "organize" /\ pc = "loop"
    /\ \E file_path \in files : LoopStep(OrganizeBody(fs, args, file_path))

-----------------------------------------------------------------------------
(* list_tools._common *)

\* the characters of the model in code point order, for str comparison
CodePoints ==
    <<" ", "-", ".">> \o DigitChars \o UpperLetters \o <<"_">> \o LowerLetters

ord(c) == CHOOSE i \in 1..Len(CodePoints) : CodePoints[i] = c

\* a < b on str: lexicographic by code point
RECURSIVE StrLess(_, _)
StrLess(a, b) ==
    IF b = <<>> THEN FALSE
    ELSE IF a = <<>> THEN TRUE
    ELSE IF Head(a) = Head(b) THEN StrLess(Tail(a), Tail(b))
    ELSE ord(Head(a)) < ord(Head(b))

\* sorted(S) for a set of str
RECURSIVE sorted(_)
sorted(S) ==
    IF S = {} THEN <<>>
    ELSE LET m == CHOOSE x \in S : \A y \in S \ {x} : StrLess(x, y)
         IN  <<m>> \o sorted(S \ {m})

Whitespace == {" "}

RECURSIVE lstrip(_)
lstrip(s) == IF s # <<>> /\ Head(s) \in Whitespace THEN lstrip(Tail(s)) ELSE s

RECURSIVE rstrip(_)
rstrip(s) ==
    IF s # <<>> /\ s[Len(s)] \in Whitespace
    THEN rstrip(SubSeq(s, 1, Len(s) - 1)) ELSE s

\* str.strip()
strip(s) == rstrip(lstrip(s))

Range(s) == { s[i] : i \in 1..Len(s) }

\* a cell is missing (NaN) or holds a str
NaN == [nan |-> TRUE, v |-> <<>>]
Str(s) == [nan |-> FALSE, v |-> s]

IsDigits(s) == s # <<>> /\ \A i \in 1..Len(s) : s[i] \in Range(DigitChars)

RECURSIVE DigitsValue(_)
DigitsValue(s) ==
    IF s = <<>> THEN 0
    ELSE 10 * DigitsValue(SubSeq(s, 1, Len(s) - 1))
         + ((CHOOSE i \in 1..10 : DigitChars[i] = s[Len(s)]) - 1)

\* parse_column_selector: int(selector) when the whole string is an optional
\* sign followed by decimal digits, the string itself otherwise (the
\* selectors of the model hold no blank and no underscore, which int() also
\* accepts around and between the digits)

parse_column_selector(selector) ==
    LET signed == selector # <<>> /\ Head(selector) \in {"-", "+"}
        digits == IF signed THEN Tail(selector) ELSE selector
    IN  IF IsDigits(digits)
        THEN [is_int |-> TRUE,
              int |-> IF signed /\ Head(selector) = "-"
                      THEN 0 - DigitsValue(digits) ELSE DigitsValue(digits),
              name |-> <<>>]
        ELSE [is_int |-> FALSE, int |-> 0, name |-> selector]

CsvSuffixes == { <<".","c","s","v">>, <<".","t","x","t">> }
ExcelSuffixes == { <<".","x","l","s","x">>, <<".","x","l","s","m">>, <<".","x","l","s">> }

\* variant: the path is looked up before its suffix is examined
read_table_exists_first(input_path, t) ==
    LET suffix == lower(Suffix(input_path))
    IN  IF ~t.exists
        THEN [error |-> "FileNotFoundError", message |-> "No such file or directory"]
        ELSE IF suffix \in CsvSuffixes \cup ExcelSuffixes
        THEN [error |-> "none", message |-> ""]
        ELSE [error |-> "ValueError", message |-> "Unsupported file extension"]

\* read_table: the suffix decides the reader, and the reader raises
\* FileNotFoundError when the path does not exist
read_table(input_path, t) ==
    LET suffix == lower(Suffix(input_path))
    IN  IF suffix \in CsvSuffixes \cup ExcelSuffixes
        THEN IF t.exists THEN [error |-> "none", message |-> ""]
             ELSE [error |-> "FileNotFoundError", message |-> "No such file or directory"]
        ELSE [error |-> "ValueError", message |-> "Unsupported file extension"]

\* variant: a negative index counts from the last column, as iloc does
extract_column_negative_wraps(t, selector) ==
    IF selector.is_int
    THEN IF selector.int >= Len(t.columns) \/ selector.int < 0 - Len(t.columns)
         THEN [error |-> "ColumnSelectionError", message |-> "is out of range",
               series |-> <<>>]
         ELSE [error |-> "none", message |-> "",
               series |-> t.data[IF selector.int < 0
                                 THEN Len(t.columns) + selector.int + 1
                                 ELSE selector.int + 1]]
    ELSE IF ~\E i \in 1..Len(t.columns) : t.columns[i] = selector.name
         THEN [error |-> "ColumnSelectionError", message |-> "not found in table columns",
               series |-> <<>>]
         ELSE [error |-> "none", message |-> "",
               series |-> t.data[CHOOSE i \in 1..Len(t.columns) :
                                    t.columns[i] = selector.name]]

\* extract_column: [error, series]
\* variant: no range and no name test, an empty series for a bad selector
extract_column_unchecked(t, selector) ==
    IF selector.is_int
    THEN [error |-> "none", message |-> "",
          series |-> IF selector.int + 1 \in 1..Len(t.columns)
                     THEN t.data[selector.int + 1] ELSE <<>>]
    ELSE [error |-> "none", message |-> "",
          series |-> IF \E i \in 1..Len(t.columns) : t.columns[i] = selector.name
                     THEN t.data[CHOOSE i \in 1..Len(t.columns) :
                                    t.columns[i] = selector.name]
                     ELSE <<>>]

extract_column(t, selector) ==
    IF selector.is_int
    THEN IF selector.int < 0 \/ selector.int >= Len(t.columns)
         THEN [error |-> "ColumnSelectionError", message |-> "is out of range",
               series |-> <<>>]
         ELSE [error |-> "none", message |-> "", series |-> t.data[selector.int + 1]]
    ELSE IF ~\E i \in 1..Len(t.columns) : t.columns[i] = selector.name
         THEN [error |-> "ColumnSelectionError", message |-> "not found in table columns",
               series |-> <<>>]
         ELSE [error |-> "none", message |-> "",
               series |-> t.data[CHOOSE i \in 1..Len(t.columns) :
                                    t.columns[i] = selector.name]]

\* variant: emptiness tested on the text as read, before the trim
RECURSIVE clean_filenames_test_before_strip(_, _, _)
clean_filenames_test_before_strip(values, strip_spaces, drop_empty) ==
    IF values = <<>> THEN <<>>
    ELSE LET item == Head(values)
             rest == clean_filenames_test_before_strip(Tail(values), strip_spaces, drop_empty)
             text == IF strip_spaces THEN strip(item.v) ELSE item.v
         IN  IF item.nan
             THEN IF drop_empty THEN rest ELSE <<<<>>>> \o rest
             ELSE IF drop_empty /\ item.v = <<>> THEN rest
             ELSE <<text>> \o rest

\* clean_filenames
RECURSIVE clean_filenames(_, _, _)
clean_filenames(values, strip_spaces, drop_empty) ==
    IF values = <<>> THEN <<>>
    ELSE LET item == Head(values)
             rest == clean_filenames(Tail(values), strip_spaces, drop_empty)
             text == IF strip_spaces THEN strip(item.v) ELSE item.v
         IN  IF item.nan
             THEN IF drop_empty THEN rest ELSE <<<<>>>> \o rest
             ELSE IF drop_empty /\ text = <<>> THEN rest
             ELSE <<text>> \o rest

\* the loop of deduplicate with keep_order: [seen, unique_list] after items
\* variant: the last occurrence of each value kept instead of the first
RECURSIVE dedup_loop_keeps_last(_)
dedup_loop_keeps_last(items) ==
    IF items = <<>> THEN [seen |-> {}, unique_list |-> <<>>]
    ELSE LET after == dedup_loop_keeps_last(Tail(items))
             item == Head(items)
         IN  IF item \in after.seen THEN after
             ELSE [seen |-> after.seen \cup {item},
                   unique_list |-> <<item>> \o after.unique_list]

RECURSIVE dedup_loop(_)
dedup_loop(items) ==
    IF items = <<>> THEN [seen |-> {}, unique_list |-> <<>>]
    ELSE LET before == dedup_loop(SubSeq(items, 1, Len(items) - 1))
             item == items[Len(items)]
         IN  IF item \in before.seen THEN before
             ELSE [seen |-> before.seen \cup {item},
                   unique_list |-> Append(before.unique_list, item)]

\* deduplicate: [unique, removed]
\* variant: the set of the items left in first-occurrence order, not sorted
deduplicate_unsorted(items, keep_order) ==
    LET unique_items == dedup_loop(items).unique_list
    IN  [unique |-> unique_items, removed |-> Len(items) - Len(unique_items)]

deduplicate(items, keep_order) ==
    LET unique_items == IF ~keep_order THEN sorted(Range(items))
                        ELSE dedup_loop(items).unique_list
    IN  [unique |-> unique_items, removed |-> Len(items) - Len(unique_items)]

\* "\n".join(lines)
RECURSIVE join_lines(_)
join_lines(lines) ==
    IF lines = <<>> THEN <<>>
    ELSE IF Len(lines) = 1 THEN lines[1]
    ELSE lines[1] \o <<"\n">> \o join_lines(Tail(lines))

-----------------------------------------------------------------------------
(* list excel-to-filenames and list dedup-filename-column *)

\* how often value occurs in items: Counter(items)[value]
count(items, value) == Cardinality({ i \in 1..Len(items) : items[i] = value })

\* variant: every value reported, also those occurring once
duplicate_items_all(cleaned) ==
    LET names == sorted(Range(cleaned))
    IN  [i \in 1..Len(names) |-> <<names[i], count(cleaned, names[i])>>]

\* sorted(duplicate_items): the (name, count) pairs with count > 1, by name
duplicate_items(cleaned) ==
    LET names == sorted({ v \in Range(cleaned) : count(cleaned, v) > 1 })
    IN  [i \in 1..Len(names) |-> <<names[i], count(cleaned, names[i])>>]

RECURSIVE Sum(_)
Sum(s) == IF s = <<>> THEN 0 ELSE Head(s) + Sum(Tail(s))

\* f"{name},{count}"
report_line(item) == item[1] \o <<",">> \o IntToStr(item[2])

\* process_filenames: [error, stats, outputs]
process_filenames(a, t, out) ==
    LET df == read_table(a.input, t)
        series == extract_column(t, parse_column_selector(a.column))
        cleaned == clean_filenames(series.series, a.strip_spaces, a.drop_empty)
        dd == IF a.unique THEN deduplicate(cleaned, a.keep_order)
              ELSE [unique |-> cleaned, removed |-> 0]
    IN  IF df.error # "none"
        THEN [error |-> df.error, message |-> df.message, stats |-> NoStats, outputs |-> out]
        ELSE IF series.error # "none"
        THEN [error |-> series.error, message |-> series.message,
              stats |-> NoStats, outputs |-> out]
        ELSE [error |-> "none", message |-> "",
              stats |-> [tool |-> "excel",
                         series |-> series.series,
                         total_rows |-> Len(series.series),
                         cleaned |-> cleaned,
                         deduped |-> dd.unique,
                         duplicates_removed |-> dd.removed],
              outputs |-> [out EXCEPT ![a.output] = join_lines(dd.unique)]]

\* analyze_duplicates: [error, stats, outputs]
analyze_duplicates(a, t, out) ==
    LET df == read_table(a.input, t)
        series == extract_column(t, parse_column_selector(a.column))
        cleaned == clean_filenames(series.series, a.strip_spaces, a.drop_empty)
        dd == deduplicate(cleaned, TRUE)
        dups == duplicate_items(cleaned)
    IN  IF df.error # "none"
        THEN [error |-> df.error, message |-> df.message, stats |-> NoStats, outputs |-> out]
        ELSE IF series.error # "none"
        THEN [error |-> series.error, message |-> series.message,
              stats |-> NoStats, outputs |-> out]
        ELSE [error |-> "none", message |-> "",
              stats |-> [tool |-> "dedup",
                         series |-> series.series,
                         total_rows |-> Len(series.series),
                         cleaned |-> cleaned,
                         unique_list |-> dd.unique,
                         duplicate_items |-> dups,
                         duplicate_occurrences |->
                             Sum([i \in 1..Len(dups) |-> dups[i][2] - 1]),
                         duplicates_removed |-> dd.removed],
              outputs |-> [out EXCEPT
                             ![a.unique_output] = join_lines(dd.unique),
                             ![a.duplicates_output] =
                                 join_lines([i \in 1..Len(dups) |-> report_line(dups[i])])]]

FsVarsUnchanged == UNCHANGED <<fs, fs0, files, log, probe>>

\* what the except branches of the list mains print after "Error: "
Printed(r) ==
    IF r.error = "FileNotFoundError" THEN "input file not found" ELSE r.message

\* the try/except of both list mains: every exception gives return 1; on an
\* exception there are no stats, and the state keeps the exception and the
\* printed message in their place
ListMain(r) ==
    /\ outputs' = r.outputs
    /\ stats' = IF r.error # "none"
                THEN [tool |-> "none", error |-> r.error, printed |-> Printed(r)]
                ELSE r.stats
    /\ Return(IF r.error # "none" THEN 1 ELSE 0)
    /\ UNCHANGED <<tool, args, table, outputs0>>
    /\ FsVarsUnchanged

\* excel_to_filename_list.main
ExcelToFilenames ==
    /\ tool = "excel" /\ pc = "start"
    /\ ListMain(process_filenames(args, table, outputs))

\* dedup_filename_column.main
DedupFilenameColumn ==
    /\ tool = "dedup" /\ pc = "start"
    /\ ListMain(analyze_duplicates(args, table, outputs))

-----------------------------------------------------------------------------
(* The inputs of the list tools *)

x == <<"x">>
y == <<"y">>
Cells == { NaN, Str(x), Str(<<" ","x">>), Str(y), Str(<<" ">>) }

Columns(n) == [1..n -> Cells]

Reverse(s) == [i \in 1..Len(s) |-> s[Len(s) + 1 - i]]

name_col == <<"n","a","m","e">>
other_col == <<"o","t","h","e","r">>

\* a two-column table: the column `name` and, beside it, the same cells in
\* reverse order as the column `other`
Tables ==
    { [exists |-> TRUE, columns |-> <<name_col, other_col>>, data |-> <<c, Reverse(c)>>] :
        c \in UNION { Columns(n) : n \in 0..MaxRows } }

MissingFile == [exists |-> FALSE, columns |-> <<>>, data |-> <<>>]

Unreadable == [exists |-> TRUE, columns |-> <<>>, data |-> <<>>]

in_csv == <<"i","n",".","c","s","v">>
in_XLSX == <<"i","n",".","X","L","S","X">>
in_pdf == <<"i","n",".","p","d","f">>

Inputs == { <<in_csv>>, <<in_XLSX>>, <<in_pdf>>, <<<<"i","n">>>> }

Selectors ==
    { name_col, <<"n","o","p","e">>, <<"0">>, <<"1">>, <<"2">>, <<"-","1">> }

out_txt == "filename_list.txt"
unique_txt == "unique_filenames.txt"
duplicates_txt == "duplicate_filenames.txt"
OutputNames == { out_txt, unique_txt, duplicates_txt }
old == <<"o","l","d">>

ExcelArgs ==
    [input : Inputs, column : Selectors, output : {out_txt},
     strip_spaces : BOOLEAN, drop_empty : BOOLEAN, unique : BOOLEAN, keep_order : BOOLEAN]

DedupArgs ==
    [input : Inputs, column : Selectors,
     unique_output : {unique_txt}, duplicates_output : {duplicates_txt},
     strip_spaces : BOOLEAN, drop_empty : BOOLEAN]

Readable(input_path) == lower(Suffix(input_path)) \in CsvSuffixes \cup ExcelSuffixes

InitListTool ==
    /\ tool \in {"excel", "dedup"}
    /\ args \in IF tool = "excel" THEN ExcelArgs ELSE DedupArgs
    /\ table \in IF Readable(args.input) THEN Tables \cup {MissingFile}
                 ELSE {Unreadable, MissingFile}
    /\ outputs \in { [n \in OutputNames |-> Absent], [n \in OutputNames |-> old] }
    /\ outputs0 = outputs
    /\ fs = <<>>
    /\ fs0 = fs
    /\ pc = "start"
    /\ files = {}
    /\ log = <<>>
    /\ rc = NoRc
    /\ exit_code = NoExit
    /\ stats = NoStats
    /\ probe = NoProbe

-----------------------------------------------------------------------------
(* resolve_conflict called on its own, on a directory that holds some of   *)
(* the names it tries                                                      *)

r_T == <<"r",".","T">>
r_1_T == <<"r","_","1",".","T">>
r_2_T == <<"r","_","2",".","T">>
r_3_T == <<"r","_","3",".","T">>
dot_h_1 == <<".","h","_","1">>

\* r_2.T is a directory when the file r_2.T/x is chosen
TakenCandidates ==
    { <<d, r_T>>, <<d, r_1_T>>, <<d, r_2_T>>, <<d, r_2_T, x>>, <<d, r_3_T>>,
      <<d, dot_h>>, <<d, dot_h_1>> }

Targets == { <<d, r_T>>, <<d, r_1_T>>, <<d, dot_h>>, <<d, r_T, x>> }

InitResolve ==
    /\ tool = "resolve_conflict"
    /\ args = <<>>
    /\ fs \in Filesystems(TakenCandidates, MaxTaken)
    /\ fs0 = fs
    /\ pc = "start"
    /\ files = {}
    /\ log = <<>>
    /\ rc = NoRc
    /\ exit_code = NoExit
    /\ table = NoTable
    /\ outputs = <<>>
    /\ outputs0 = <<>>
    /\ stats = NoStats
    /\ probe \in [target : Targets, result : {<<>>}, called : {FALSE}]

ResolveConflict ==
    /\ tool = "resolve_conflict" /\ pc = "start"
    /\ probe' = [target |-> probe.target,
                 result |-> resolve_conflict(fs, probe.target),
                 called |-> TRUE]
    /\ pc' = "done"
    /\ UNCHANGED <<tool, args, fs, fs0, files, log, rc, exit_code, table,
                   outputs, outputs0, stats>>

-----------------------------------------------------------------------------
Init == InitFsTool \/ InitListTool \/ InitResolve

Next ==
    \/ RenameStart
    \/ RenameStep
    \/ OrganizeStart
    \/ OrganizeStep
    \/ ExcelToFilenames
    \/ DedupFilenameColumn
    \/ ResolveConflict

Spec == Init /\ [][Next]_vars

-----------------------------------------------------------------------------
(* Properties *)

FsTool == tool \in {"rename", "organize"}
ListTool == tool \in {"excel", "dedup"}
Lines == { log[i] : i \in 1..Len(log) }
Applying == FsTool /\ args.apply /\ ~args.dry_run

\* C1: a run of rename-basic or organize-ext without --apply, or with
\* --dry-run (also beside --apply), prints every line as DRY-RUN, issues no
\* mkdir and no rename, and leaves the filesystem as it was when it started.
C1_DryRunLeavesFilesystem ==
    (FsTool /\ (~args.apply \/ args.dry_run)) =>
        /\ fs = fs0
        /\ \A l \in Lines : l.label = "DRY-RUN" /\ l.calls = <<>> /\ ~l.raised
        /\ pc # "crashed"

\* a finished run given both --dry-run and --apply that planned a move or rename
C1_Witness ==
    /\ FsTool /\ pc = "done" /\ args.apply /\ args.dry_run
    /\ Len(log) >= 2
    /\ \E l \in Lines : l.dst # l.src /\ l.label = "DRY-RUN"

\* C2: a tool started through cli.main ends with exit status 1 when the
\* tool's main returned 1 (a handled error) and with 0 when it returned 0.
C2_ExitCodeFollowsTool ==
    (pc = "done" /\ tool # "resolve_conflict") => exit_code = rc

\* C3: resolve_conflict returns a path that does not exist: the target when
\* the target does not exist, otherwise <stem>_N<ext> beside the target for
\* the smallest N >= 1 whose candidate does not exist.
C3_ResolveConflictLowestFree ==
    probe.called =>
        LET target == probe.target
            result == probe.result
            numbered(N) == Append(Parent(target),
                Stem(target) \o <<"_">> \o IntToStr(N) \o Suffix(target))
        IN  /\ ~Exists(fs, result)
            /\ ~Exists(fs, target) => result = target
            /\ Exists(fs, target) =>
                 \E N \in 1..(Cardinality(DOMAIN fs) + 1) :
                    /\ result = numbered(N)
                    /\ \A M \in 1..(N - 1) : Exists(fs, numbered(M))

\* the target and its _1 candidate exist (one of them may be a directory), so _2 or a later one is returned
C3_Witness ==
    /\ probe.called
    /\ Exists(fs, probe.target)
    /\ Exists(fs, WithName(probe.target, r_1_T))
    /\ Name(probe.result) \in {r_2_T, r_3_T}

\* C4: in apply mode a file whose destination is its own path gets no call
\* at all: no mkdir and no rename.
C4_SameDestinationNoCall ==
    \A l \in Lines : (l.label = "APPLY" /\ l.dst = l.src) => l.calls = <<>>

\* the fatal conditions, read off the arguments and the starting state
BadDirectory == FsTool /\ ~(args.dir \in DOMAIN fs0 /\ fs0[args.dir].kind = "dir")
ConflictingFlags == tool = "rename" /\ args.lower_ext /\ args.upper_ext
MissingInput == ListTool /\ ~table.exists
UnsupportedFormat ==
    ListTool /\ lower(Suffix(args.input)) \notin CsvSuffixes \cup ExcelSuffixes
SelectorIsInteger ==
    \/ IsDigits(args.column)
    \/ Len(args.column) > 1 /\ args.column[1] \in {"-", "+"} /\ IsDigits(Tail(args.column))
BadColumn ==
    /\ ListTool /\ table.exists
    /\ IF SelectorIsInteger
       THEN \/ args.column[1] = "-" /\ DigitsValue(Tail(args.column)) > 0
            \/ args.column[1] # "-" /\ IsDigits(args.column)
                 /\ DigitsValue(args.column) >= Len(table.columns)
       ELSE args.column \notin Range(table.columns)
Fatal ==
    BadDirectory \/ ConflictingFlags \/ MissingInput \/ UnsupportedFormat \/ BadColumn

\* C5: a tool that meets a fatal condition goes straight to returning 1: it
\* processes no file and the filesystem and the output files are as they
\* were when it started.
C5_FatalMeansNoMutation ==
    (Fatal /\ pc # "start") =>
        /\ pc = "done" /\ rc = 1
        /\ fs = fs0 /\ log = <<>>
        /\ outputs = outputs0

\* dedup-filename-column stopped by a bad column of a table that has rows,
\* with both output files holding earlier content
C5_Witness ==
    /\ tool = "dedup" /\ pc = "done" /\ rc = 1
    /\ BadColumn /\ ~UnsupportedFormat
    /\ Len(table.data[1]) = MaxRows
    /\ outputs[unique_txt] = old /\ outputs[duplicates_txt] = old

\* C6: in apply mode the file just processed, when its destination differs
\* from its source, was moved: the parent directory of the destination is a
\* directory, no call raised, the file is at the destination and the source
\* path is gone.
C6_AppliedMoveArrives ==
    (Applying /\ log # <<>>) =>
        LET l == log[Len(log)]
        IN  l.dst # l.src =>
              /\ ~l.raised
              /\ IsDir(fs, Parent(l.dst))
              /\ \A i \in 1..Len(l.calls) : l.calls[i].parent_is_dir
              /\ IsFile(fs, l.dst) /\ fs[l.dst].id = fs0[l.src].id
              /\ ~Exists(fs, l.src)

NoOptions ==
    /\ tool = "rename"
    /\ args.prefix = <<>> /\ args.suffix = <<>>
    /\ ~args.lower_ext /\ ~args.upper_ext

\* C7: rename-basic without prefix, suffix and extension flag plans every
\* file onto its own path, never onto a _N name, and changes nothing, with
\* --apply too.
C7_NoOptionsIsNoOp ==
    NoOptions =>
        /\ \A l \in Lines : l.dst = l.src /\ l.planned = l.src /\ l.calls = <<>>
        /\ fs = fs0

\* an applied run without options over three files, one of them a dotfile
C7_Witness ==
    /\ NoOptions /\ Applying /\ pc = "done"
    /\ Len(log) = 3
    /\ \E l \in Lines : Name(l.src) = dot_h
    /\ \E l \in Lines : Name(l.src) = a_JPG

\* C8: organize-ext computes for every file the destination
\* target_root / folder / name, folder being the extension in lower case
\* without its dot, or no_ext; target_root is the source directory unless
\* --target-root is given.  The printed destination is that path, or, when
\* that path exists and is not the source, a free path in the same folder.
C8_OrganizeDestination ==
    tool = "organize" =>
        \A l \in Lines :
            LET root == IF args.target_root = <<>> THEN args.dir ELSE args.target_root
                ext == Suffix(l.src)
                folder == IF ext = <<>> THEN no_ext ELSE lower(Tail(ext))
            IN  /\ l.planned = root \o <<folder, Name(l.src)>>
                /\ Parent(l.dst) = root \o <<folder>>
                /\ (l.dst # l.planned) => (l.planned # l.src /\ l.planned \in DOMAIN fs0 \cup DOMAIN fs)

\* a.JPG and b.jpg of the source directory both planned into <root>/jpg under their own names
C8_Witness ==
    /\ tool = "organize" /\ pc = "done" /\ args.target_root = <<>>
    /\ \E l \in Lines : l.src = <<d, a_JPG>> /\ l.dst = <<d, jpg, a_JPG>>
    /\ \E l \in Lines : l.src = <<d, b_jpg>> /\ l.dst = <<d, jpg, b_jpg>>

\* C9: rename-basic plans for every file the name prefix + stem + suffix
\* followed by the extension (lower case under --lower-ext, upper case under
\* --upper-ext, as it is otherwise) in the directory of the source; the
\* printed destination, a _N one included, is in that directory too.
C9_RenamePlan ==
    tool = "rename" =>
        \A l \in Lines :
            LET ext == Suffix(l.src)
                cased == IF args.lower_ext THEN lower(ext)
                         ELSE IF args.upper_ext THEN upper(ext) ELSE ext
            IN  /\ Name(l.planned) = args.prefix \o Stem(l.src) \o args.suffix \o cased
                /\ Parent(l.planned) = Parent(l.src)
                /\ Parent(l.dst) = Parent(l.src)
                /\ l.dst # l.planned =>
                     \E N \in 1..(Cardinality(DOMAIN fs0) + 1) :
                        Name(l.dst) = args.prefix \o Stem(l.src) \o args.suffix
                                        \o <<"_">> \o IntToStr(N) \o cased

\* a.JPG with prefix n_ and no extension flag keeps .JPG: planned n_a.JPG,
\* which exists, so printed and moved as n_a_1.JPG
C9_Witness ==
    /\ tool = "rename" /\ pc = "done" /\ Applying
    /\ args.prefix # <<>> /\ args.suffix = <<>> /\ ~args.lower_ext /\ ~args.upper_ext
    /\ \E l \in Lines :
          /\ l.src = <<d, a_JPG>>
          /\ l.planned = <<d, n_a_JPG>>
          /\ Name(l.dst) = <<"n","_","a","_","1",".","J","P","G">>

\* the runs in which deduplicate was called with keep_order
KeptOrder ==
    /\ pc = "done" /\ rc = 0
    /\ tool = "dedup" \/ (tool = "excel" /\ args.unique /\ args.keep_order)

DedupOut == IF tool = "dedup" THEN stats.unique_list ELSE stats.deduped

FirstIndex(s, v) == CHOOSE i \in 1..Len(s) : s[i] = v /\ \A j \in 1..(i - 1) : s[j] # v

\* C10: deduplicate with keep_order returns the distinct values of its
\* input, none twice, in the order of their first occurrences, and
\* removed = len(input) - len(output).
C10_DedupKeepOrder ==
    KeptOrder =>
        LET in == stats.cleaned
            out == DedupOut
        IN  /\ \A i \in 1..Len(out) : \A j \in 1..Len(out) : out[i] = out[j] => i = j
            /\ Range(out) = Range(in)
            /\ \A i \in 1..Len(out) : \A j \in 1..Len(out) :
                  i < j => FirstIndex(in, out[i]) < FirstIndex(in, out[j])
            /\ stats.duplicates_removed = Len(in) - Len(out)

\* [x, y, x] gives [x, y] and 1
C10_Witness ==
    /\ KeptOrder
    /\ stats.cleaned = <<x, y, x>>
    /\ DedupOut = <<x, y>>
    /\ stats.duplicates_removed = 1

\* the runs in which deduplicate was called without keep_order
Sorted ==
    /\ pc = "done" /\ rc = 0
    /\ tool = "excel" /\ args.unique /\ ~args.keep_order

\* a < b on strings, by the first position at which they differ
Below(a, b) ==
    \E k \in 1..(Len(b)) :
        /\ \A i \in 1..(k - 1) : i <= Len(a) /\ a[i] = b[i]
        /\ \/ Len(a) = k - 1
           \/ Len(a) >= k /\ ord(a[k]) < ord(b[k])

\* C11: deduplicate without keep_order returns the distinct values of its
\* input in strictly ascending lexicographic order, the same set of values
\* and the same removed count as with keep_order on the same input.
C11_DedupSorted ==
    Sorted =>
        LET in == stats.cleaned
            out == stats.deduped
            kept == deduplicate(in, TRUE)
        IN  /\ \A i \in 1..(Len(out) - 1) : Below(out[i], out[i + 1])
            /\ Range(out) = Range(in)
            /\ Range(out) = Range(kept.unique)
            /\ Len(out) = Len(kept.unique)
            /\ stats.duplicates_removed = Len(in) - Len(out)
            /\ stats.duplicates_removed = kept.removed

\* [y, " x", y] read without trimming gives [" x", y] and 1
C11_Witness ==
    /\ Sorted
    /\ stats.cleaned = <<y, <<" ", "x">>, y>>
    /\ stats.deduped = <<<<" ", "x">>, y>>
    /\ stats.duplicates_removed = 1

Reported == pc = "done" /\ rc = 0 /\ tool = "dedup"

Occurrences(s, v) == Cardinality({ i \in 1..Len(s) : s[i] = v })

Cleaned == pc = "done" /\ rc = 0 /\ ListTool

\* the text between the first and the last non-blank character of s
Trimmed(s) ==
    LET solid == { i \in 1..Len(s) : s[i] # " " }
    IN  IF solid = {} THEN <<>>
        ELSE SubSeq(s, CHOOSE i \in solid : \A j \in solid : i <= j,
                       CHOOSE i \in solid : \A j \in solid : j <= i)

\* what row i of the column gives when it is kept
Expected(values, strip_spaces, i) ==
    IF values[i].nan THEN <<>>
    ELSE IF strip_spaces THEN Trimmed(values[i].v) ELSE values[i].v

\* the rows that survive
Kept(values, strip_spaces, drop_empty) ==
    { i \in 1..Len(values) :
        ~drop_empty \/ (~values[i].nan /\ Expected(values, strip_spaces, i) # <<>>) }

\* C13: clean_filenames keeps the surviving values in row order; with
\* drop_empty the output holds no empty string and omits the missing values
\* and the values empty after the optional trim; without drop_empty it holds
\* one entry per input value, a missing value giving the empty string.
C13_CleanFilenames ==
    Cleaned =>
        LET values == stats.series
            out == stats.cleaned
            kept == Kept(values, args.strip_spaces, args.drop_empty)
            row(k) == CHOOSE i \in kept : Cardinality({ j \in kept : j <= i }) = k
        IN  /\ Len(out) = Cardinality(kept)
            /\ \A k \in 1..Len(out) : out[k] = Expected(values, args.strip_spaces, row(k))
            /\ args.drop_empty => \A k \in 1..Len(out) : out[k] # <<>>
            /\ ~args.drop_empty =>
                 /\ Len(out) = Len(values)
                 /\ \A i \in 1..Len(values) : values[i].nan => out[i] = <<>>

\* [" ", NaN, " x"] trimmed with drop_empty: only x survives
C13_Witness ==
    /\ Cleaned
    /\ args.strip_spaces
    /\ args.drop_empty
    /\ stats.series = <<Str(<<" ">>), NaN, Str(<<" ", "x">>)>>
    /\ stats.cleaned = <<x>>

Loaded == pc = "done" /\ ListTool /\ table.exists /\ ~UnsupportedFormat

\* the value of an integer selector
SelectorIndex ==
    IF args.column[1] = "-" THEN 0 - DigitsValue(Tail(args.column))
    ELSE IF args.column[1] = "+" THEN DigitsValue(Tail(args.column))
    ELSE DigitsValue(args.column)

ColumnError(printed) ==
    /\ rc = 1
    /\ stats.error = "ColumnSelectionError"
    /\ stats.printed = printed

\* C14: a selector that parses as an integer is a zero-based index and
\* resolves iff 0 <= index < column_count, failing with the out-of-range
\* error otherwise (negative indices too); any other selector is a column
\* name and resolves iff the header holds it, failing with the not-found
\* error otherwise; both failures make the tool return 1.
C14_ColumnSelector ==
    Loaded =>
        IF SelectorIsInteger
        THEN IF 0 <= SelectorIndex /\ SelectorIndex < Len(table.columns)
             THEN rc = 0 /\ stats.series = table.data[SelectorIndex + 1]
             ELSE ColumnError("is out of range")
        ELSE IF \E i \in 1..Len(table.columns) : table.columns[i] = args.column
             THEN /\ rc = 0
                  /\ \E i \in 1..Len(table.columns) :
                        table.columns[i] = args.column /\ stats.series = table.data[i]
             ELSE ColumnError("not found in table columns")

\* --column -1 on a two-column table holding cells: out of range, return 1
C14_Witness ==
    /\ Loaded
    /\ args.column = <<"-", "1">>
    /\ Len(table.columns) = 2
    /\ table.data[2] = <<Str(x), Str(y)>>
    /\ ColumnError("is out of range")

LoadError(error, printed) ==
    /\ rc = 1
    /\ stats.error = error
    /\ stats.printed = printed

SupportedSuffixes ==
    { <<".","c","s","v">>, <<".","t","x","t">>, <<".","x","l","s","x">>,
      <<".","x","l","s","m">>, <<".","x","l","s">> }

SupportedInput == lower(Suffix(args.input)) \in SupportedSuffixes

\* C15 as stated: a path that does not exist fails with the file-not-found
\* error whatever its extension, and an existing path with an extension
\* outside .csv .txt .xlsx .xlsm .xls fails with the unsupported-format error.
C15_MissingAlwaysNotFound ==
    (ListTool /\ pc = "done") =>
        /\ ~table.exists => LoadError("FileNotFoundError", "input file not found")
        /\ (table.exists /\ ~SupportedInput) =>
              LoadError("ValueError", "Unsupported file extension")

\* C15, amended: the extension is examined first. A path whose extension is
\* none of .csv .txt .xlsx .xlsm .xls (in any letter case) fails with the
\* unsupported-format error whether or not the path exists; a path with one
\* of these extensions that does not exist fails with the file-not-found
\* error, printed as `input file not found`. Both make the tool return 1.
C15_LoadErrors ==
    (ListTool /\ pc = "done") =>
        /\ ~SupportedInput => LoadError("ValueError", "Unsupported file extension")
        /\ (SupportedInput /\ ~table.exists) =>
              LoadError("FileNotFoundError", "input file not found")

\* in.pdf does not exist: the run ends on the unsupported-format error
C15_Witness ==
    /\ ListTool /\ pc = "done"
    /\ args.input = <<in_pdf>>
    /\ ~table.exists
    /\ LoadError("ValueError", "Unsupported file extension")
    /\ outputs = outputs0

\* the runs that reached the loop in apply mode
Entered == Applying /\ (pc = "loop" \/ log # <<>>)

\* the destination the file would be given on the filesystem f
DestinationOn(f, file_path) ==
    IF tool = "rename" THEN RenameBody(f, args, file_path).line.dst
    ELSE OrganizeBody(f, args, file_path).line.dst

\* C16 as stated: in an apply run the destination of every enumerated file is
\* determined before the first file is moved, so every printed destination is
\* the one the file gets on the filesystem the run started with.
C16_PlanBeforeExecution ==
    Entered => \A i \in 1..Len(log) : log[i].dst = DestinationOn(fs0, log[i].src)

\* the filesystem after the calls c[1..n]
RECURSIVE AfterCalls(_, _, _)
AfterCalls(f, c, n) ==
    IF n = 0 THEN f
    ELSE LET g == AfterCalls(f, c, n - 1)
         IN  IF c[n].op = "mkdir" THEN mkdir(g, c[n].a).fs
             ELSE rename(g, c[n].a, c[n].b).fs

\* the filesystem after the first k files of the run
RECURSIVE FsAfter(_)
FsAfter(k) ==
    IF k = 0 THEN fs0
    ELSE AfterCalls(FsAfter(k - 1), log[k].calls, Len(log[k].calls))

\* <stem>_N<ext> beside path p
Numbered(p, N) == Append(Parent(p), Stem(p) \o <<"_">> \o IntToStr(N) \o Suffix(p))

\* C16, amended: in an apply run the list of files is fixed before the first
\* move (each file found at the start is processed once, nothing else is),
\* and the path computed for a file before the conflict test depends only on
\* its own path and the options; the conflict test and the choice of _N are
\* made at the file's own turn, against the filesystem as the earlier moves
\* of the run have left it.
C16_PlanInterleaved ==
    Entered =>
        /\ { log[i].src : i \in 1..Len(log) } \cup files
             = iter_files(fs0, args.dir, args.recursive)
        /\ \A i \in 1..Len(log) : \A j \in 1..Len(log) :
              log[i].src = log[j].src => i = j
        /\ FsAfter(Len(log)) = fs
        /\ \A i \in 1..Len(log) :
              LET l == log[i]
                  live == FsAfter(i - 1)
              IN  /\ l.planned = (IF tool = "rename"
                                  THEN RenameBody(fs0, args, l.src).line.planned
                                  ELSE OrganizeBody(fs0, args, l.src).line.planned)
                  /\ IF Exists(live, l.planned) /\ l.planned # l.src
                     THEN \E N \in 1..(Cardinality(DOMAIN live) + 1) :
                             /\ l.dst = Numbered(l.planned, N)
                             /\ ~Exists(live, l.dst)
                             /\ \A M \in 1..(N - 1) : Exists(live, Numbered(l.planned, M))
                     ELSE l.dst = l.planned

\* rename --prefix n_ --apply on a.JPG and n_a.JPG: n_a.JPG was moved to
\* n_n_a.JPG first, so a.JPG got n_a.JPG, not the n_a_1.JPG it would have
\* been given at the start of the run
C16_Witness ==
    /\ Entered /\ tool = "rename" /\ pc = "done"
    /\ Len(log) = 2
    /\ log[1].src = <<d, n_a_JPG>>
    /\ log[2].src = <<d, a_JPG>>
    /\ log[2].dst = <<d, n_a_JPG>>
    /\ DestinationOn(fs0, <<d, a_JPG>>) = Numbered(<<d, n_a_JPG>>, 1)

DryRun == FsTool /\ (~args.apply \/ args.dry_run)

\* C17 as stated: in a dry-run two distinct source files whose computed
\* destination is the same path are both printed with the same destination.
C17_SamePlannedSamePrinted ==
    DryRun =>
        \A l1 \in Lines : \A l2 \in Lines :
            (l1.src # l2.src /\ l1.planned = l2.planned) => l1.dst = l2.dst

\* C17, amended: in a dry-run every file is resolved against the filesystem
\* alone, which stays as it was: a file already at its computed destination
\* is printed with that path, any other file is printed with the computed
\* destination when that path does not exist and with the lowest free _N
\* candidate otherwise, whatever was printed for other files. So two distinct
\* sources with the same computed destination, neither of them at that path,
\* are printed with the same destination.
C17_ResolvedAgainstFilesystemOnly ==
    DryRun =>
        /\ fs = fs0
        /\ \A l \in Lines :
              IF Exists(fs0, l.planned) /\ l.planned # l.src
              THEN \E N \in 1..(Cardinality(DOMAIN fs0) + 1) :
                      /\ l.dst = Numbered(l.planned, N)
                      /\ ~Exists(fs0, l.dst)
                      /\ \A M \in 1..(N - 1) : Exists(fs0, Numbered(l.planned, M))
              ELSE l.dst = l.planned
        /\ \A l1 \in Lines : \A l2 \in Lines :
              (/\ l1.src # l2.src /\ l1.planned = l2.planned
               /\ l1.src # l1.planned /\ l2.src # l2.planned) => l1.dst = l2.dst

\* organize-ext --recursive without --apply on d/a.JPG and d/s/a.JPG: both
\* are printed with d/jpg/a.JPG
C17_Witness ==
    /\ DryRun /\ tool = "organize" /\ pc = "done"
    /\ \E l1 \in Lines : \E l2 \in Lines :
          /\ l1.src = <<d, a_JPG>>
          /\ l2.src = <<d, <<"s">>, a_JPG>>
          /\ l1.dst = <<d, jpg, a_JPG>>
          /\ l2.dst = <<d, jpg, a_JPG>>

RegularFiles(f) == { p \in DOMAIN f : f[p].kind = "file" }

\* the paths at which f holds the file that was at path p when the run started
PlacesOf(f, p) == { q \in RegularFiles(f) : f[q].id = fs0[p].id }

\* C18: in an apply run of rename-basic or organize-ext, every rename of a
\* file to another path targets a path that does not exist at that moment;
\* so at every point of the run each file the filesystem held at the start
\* is still there at exactly one path (none overwritten, none doubled), the
\* files of the lines that did not raise have pairwise distinct
\* destinations, after the run every processed file is at a printed
\* destination, and the number of regular files is the one before the run. (A rename
\* of a file to its own path, which organize-ext issues for a file already
\* at its destination, replaces nothing and is not counted as a move.)
C18_NoOverwrite ==
    Applying =>
        /\ \A l \in Lines : \A i \in 1..Len(l.calls) :
              (l.calls[i].op = "rename" /\ l.calls[i].a # l.calls[i].b)
                  => ~l.calls[i].target_existed
        /\ \A p \in RegularFiles(fs0) : Cardinality(PlacesOf(fs, p)) = 1
        /\ \A l1 \in Lines : \A l2 \in Lines :
              (l1.src # l2.src /\ ~l1.raised /\ ~l2.raised) => l1.dst # l2.dst
        /\ pc = "done" =>
              \A l \in Lines : PlacesOf(fs, l.src) \subseteq { m.dst : m \in Lines }
        /\ Cardinality(RegularFiles(fs)) = Cardinality(RegularFiles(fs0))

\* organize-ext --recursive --apply on d/a.JPG and d/s/a.JPG: one is moved
\* to d/jpg/a.JPG, the other to d/jpg/a_1.JPG, and both files are there
C18_Witness ==
    /\ Applying /\ tool = "organize" /\ pc = "done"
    /\ RegularFiles(fs0) = { <<d, a_JPG>>, <<d, <<"s">>, a_JPG>> }
    /\ RegularFiles(fs) = { <<d, jpg, a_JPG>>, Numbered(<<d, jpg, a_JPG>>, 1) }
    /\ \E l \in Lines : l.planned = <<d, jpg, a_JPG>> /\ l.dst = Numbered(l.planned, 1)

====
